---- MODULE Spec2Model ----
(***************************************************************************)
(* Model of the batch content judge (src/_judge_model):                    *)
(*   BatchContentJudge._create_batch_evaluation_prompt                     *)
(*   BatchContentJudge._get_llm_evaluation                                 *)
(*   BatchContentJudge._parse_evaluations                                  *)
(*   BatchContentJudge._process_batches                                    *)
(*   BatchContentJudge.evaluate_tavily_results                             *)
(* and of the pydantic records of model_binary_judge.py.                   *)
(*                                                                         *)
(* Three specifications share the variables:                               *)
(*   Spec        one call of evaluate_tavily_results, one step per batch   *)
(*   SpecParse   _parse_evaluations applied to a decoded payload           *)
(*   SpecPrompt  _create_batch_evaluation_prompt applied to a batch        *)
(***************************************************************************)
EXTENDS Integers, Sequences, FiniteSets, TLC

VARIABLES
    pc,             \* position of the call being modelled
    results,        \* evaluate_tavily_results: the List[TavilyResult] given
    batch_size,     \* self.batch_size
    content_items,  \* the List[ContentForJudging]
    requests,       \* number of chat.completions.create calls issued so far
    prompt,         \* the last prompt built (item_prompt list and user_prompt)
    reply,          \* the last reply of the evaluation service (on the wire)
    response,       \* the decoded payload handed to _parse_evaluations
    parsed,         \* outcome of the last _parse_evaluations call
    all_results,    \* _process_batches: the accumulating list
    all_evaluations,\* evaluate_tavily_results: value returned by _process_batches
    query_results,  \* the QueryResults bundle (returned when pc = "done")
    exc             \* the exception the call ended with (when pc = "raised")

vars == <<pc, results, batch_size, content_items, requests, prompt,
          reply, response, parsed, all_results, all_evaluations, query_results, exc>>

(***************************************************************************)
(* Bounds of the model.                                                    *)
(***************************************************************************)
\* longest result list given to evaluate_tavily_results
MaxItems == 3
\* largest batch_size the judge is constructed with
MaxBatchSize == 2
\* longest 'evaluations' list handed to _parse_evaluations in SpecParse
MaxEvals == 2
\* longest batch handed to _create_batch_evaluation_prompt in SpecPrompt
MaxPromptItems == 2

(***************************************************************************)
(* Python values.  A JSON value is a tagged record; a dict is a record     *)
(* whose absent keys hold Missing.                                         *)
(***************************************************************************)
None == [t |-> "null"]
Missing == [t |-> "missing"]
JBool(b) == [t |-> "bool", v |-> b]
JStr(s) == [t |-> "str", v |-> s]
JNum(n) == [t |-> "num", v |-> n]
JList(l) == [t |-> "list", v |-> l]
EvalDict(iv, src, rsn) == [t |-> "dict", is_valid |-> iv, source |-> src, reason |-> rsn]
Payload(evals, total) == [t |-> "dict", evaluations |-> evals, total_evaluated |-> total]

\* dict.get(key): None for an absent key
Get(d, key) == IF d[key].t = "missing" THEN None ELSE d[key]

\* dict.get(key, default)
GetDefault(d, key, default) == IF d[key].t = "missing" THEN default ELSE d[key]

\* Python truthiness (the operand of `not`)
Truthy(x) ==
    CASE x.t = "null" -> FALSE
      [] x.t = "bool" -> x.v
      [] x.t = "str"  -> x.v # ""
      [] x.t = "num"  -> x.v # 0
      [] x.t = "list" -> Len(x.v) > 0
      [] x.t = "dict" -> \E k \in DOMAIN x \ {"t"} : x[k].t # "missing"

StartsWith(s, p) == Len(s) >= Len(p) /\ SubSeq(s, 1, Len(p)) = p

\* str(x) of a JSON scalar inside an f-string, repr() inside a dict
PyRepr(x) ==
    CASE x.t = "null" -> "None"
      [] x.t = "bool" -> IF x.v THEN "True" ELSE "False"
      [] x.t = "str"  -> "'" \o x.v \o "'"
      [] x.t = "num"  -> ToString(x.v)
      [] OTHER        -> "[...]"

\* repr() of a dict: the keys present, in payload order
PresentKeys(d) == SelectSeq(<<"is_valid", "source", "reason">>, LAMBDA k : d[k].t # "missing")

RECURSIVE JoinFields(_, _)
JoinFields(d, keys) ==
    IF keys = <<>> THEN ""
    ELSE "'" \o Head(keys) \o "': " \o PyRepr(d[Head(keys)])
         \o (IF Len(keys) > 1 THEN ", " ELSE "") \o JoinFields(d, Tail(keys))

PyStr(x) ==
    CASE x.t = "dict" -> "{" \o JoinFields(x, PresentKeys(x)) \o "}"
      [] x.t = "str"  -> x.v
      [] OTHER        -> PyRepr(x)

(***************************************************************************)
(* model_binary_judge.py: the pydantic records.                            *)
(***************************************************************************)
\* EvaluationOutput(is_valid=.., source=.., reason=..): the record, or a
\* pydantic ValidationError when a field has the wrong type
EvaluationOutput(is_valid, source, reason) ==
    IF is_valid.t = "bool" /\ source.t \in {"null", "str"} /\ reason.t = "str"
    THEN [exc |-> "none", output |-> [is_valid |-> is_valid.v, source |-> source, reason |-> reason.v]]
    ELSE [exc |-> "ValidationError", msg |-> "validation error for EvaluationOutput"]

Raise(kind, message) == [exc |-> kind, msg |-> message]

(***************************************************************************)
(* BatchContentJudge._parse_evaluations                                    *)
(***************************************************************************)
\* line 186, faulty variant: the payload's source is kept for an invalid verdict
SourceOfKept(eval_data, is_valid) == Get(eval_data, "source")

\* line 186: source = eval_data.get("source") if is_valid else None
SourceOf(eval_data, is_valid) == IF is_valid.v THEN Get(eval_data, "source") ELSE None

\* lines 172-196: the body of the per-element try
TryEvaluation(eval_data) ==
    IF eval_data.t # "dict"
    THEN Raise("LLMEvaluationError", "Invalid evaluation format: " \o PyStr(eval_data))
    ELSE LET is_valid == Get(eval_data, "is_valid") IN
         IF is_valid.t # "bool"
         THEN Raise("LLMEvaluationError", "Invalid or missing 'is_valid' field: " \o PyStr(eval_data))
         ELSE LET reason == Get(eval_data, "reason") IN
              IF ~Truthy(reason) \/ reason.t # "str"
              THEN Raise("LLMEvaluationError", "Invalid or missing 'reason' field: " \o PyStr(eval_data))
              ELSE LET source == SourceOf(eval_data, is_valid) IN
                   IF is_valid.v /\ (~Truthy(source) \/ source.t # "str")
                   THEN Raise("LLMEvaluationError", "Missing source for valid content: " \o PyStr(eval_data))
                   ELSE EvaluationOutput(is_valid, source, reason)

\* lines 198-214, faulty variant: the except clauses are dropped, the error escapes
HandleEvaluationReraise(r) ==
    IF r.exc = "none" THEN r ELSE Raise(r.exc, r.msg)

\* lines 198-214: except ValidationError / except Exception around the try
HandleEvaluation(r) ==
    CASE r.exc = "none" -> r
      [] r.exc = "ValidationError" ->
            EvaluationOutput(JBool(FALSE), None, JStr("evaluation_error: " \o r.msg))
      [] OTHER ->
            EvaluationOutput(JBool(FALSE), None, JStr("processing_error: " \o r.msg))

\* lines 170-214: the loop over evaluations; an error that escapes an
\* iteration ends the loop
RECURSIVE EvaluationLoop(_, _)
EvaluationLoop(evaluations, outputs) ==
    IF evaluations = <<>> THEN [exc |-> "none", outputs |-> outputs]
    ELSE LET r == HandleEvaluation(TryEvaluation(Head(evaluations))) IN
         IF r.exc # "none" THEN Raise(r.exc, r.msg)
         ELSE EvaluationLoop(Tail(evaluations), Append(outputs, r.output))

\* lines 217-221: the count check only logs
CountMismatch(llm_response, outputs) ==
    LET expected_count == GetDefault(llm_response, "total_evaluated", JNum(0)) IN
    ~(expected_count.t = "num" /\ expected_count.v = Len(outputs))

\* lines 158-223: the body of the outer try
TryParse(llm_response) ==
    IF llm_response.t # "dict"
    THEN Raise("LLMEvaluationError", "LLM response is not a dictionary")
    ELSE LET evaluations == Get(llm_response, "evaluations") IN
         IF ~Truthy(evaluations) \/ evaluations.t # "list"
         THEN Raise("LLMEvaluationError", "Missing or invalid 'evaluations' array in response")
         ELSE LET r == EvaluationLoop(evaluations.v, <<>>) IN
              IF r.exc # "none" THEN r
              ELSE [exc |-> "none", outputs |-> r.outputs,
                    warning |-> CountMismatch(llm_response, r.outputs)]

\* lines 225-227, faulty variant: a payload that cannot be parsed yields no verdicts
\* instead of an error
ParseEvaluationsLenient(llm_response) ==
    LET r == TryParse(llm_response) IN
    IF r.exc = "none" THEN r
    ELSE [exc |-> "none", outputs |-> <<>>, warning |-> TRUE]

\* lines 156-227: every exception leaves as LLMEvaluationError
ParseEvaluations(llm_response) ==
    LET r == TryParse(llm_response) IN
    IF r.exc = "none" THEN r
    ELSE Raise("LLMEvaluationError", "Failed to parse LLM response: " \o r.msg)

NotCalled == [exc |-> "not_called"]

(***************************************************************************)
(* SpecParse: _parse_evaluations applied to one decoded payload.           *)
(***************************************************************************)
\* the elements an 'evaluations' list is drawn from
IsValidValues == {JBool(TRUE), JBool(FALSE), Missing, JNum(1)}
ReasonValues == {Missing, JStr(""), JStr("too short")}
SourceValues == {None, JStr(""), JStr("Reuters")}
Elements ==
    {EvalDict(iv, src, rsn) : iv \in IsValidValues, src \in SourceValues, rsn \in ReasonValues}
    \cup {JStr("oops"),
          EvalDict(JBool(TRUE), JNum(5), JStr("ok")),
          EvalDict(JBool(FALSE), Missing, JNum(7)),
          EvalDict(JBool(FALSE), Missing, JStr("paywall"))}

RECURSIVE SeqsUpTo(_, _)
SeqsUpTo(S, n) ==
    IF n = 0 THEN {<<>>}
    ELSE LET shorter == SeqsUpTo(S, n - 1) IN
         shorter \cup {Append(q, x) : q \in {r \in shorter : Len(r) = n - 1}, x \in S}

ParseInputs ==
    {None, JStr("not json object"), JList(<<>>)}
    \cup {Payload(ev, tot) :
            ev \in {Missing, None, JStr("x")} \cup {JList(l) : l \in SeqsUpTo(Elements, MaxEvals)},
            tot \in {Missing, JNum(1)}}

NoReply == [status |-> "none"]
NotReturned == [returned |-> FALSE, value |-> <<>>]

Idle ==
    /\ reply = NoReply
    /\ results = <<>>
    /\ batch_size = 1
    /\ content_items = <<>>
    /\ requests = 0
    /\ all_results = <<>>
    /\ all_evaluations = NotReturned
    /\ query_results = None
    /\ exc = "none"

InitParse ==
    /\ pc = "parse"
    /\ response \in ParseInputs
    /\ parsed = NotCalled
    /\ prompt = <<>>
    /\ Idle

CallParseEvaluations ==
    /\ pc = "parse"
    /\ parsed' = ParseEvaluations(response)
    /\ pc' = "parsed"
    /\ UNCHANGED <<results, batch_size, content_items, requests, prompt, reply, response,
                   all_results, all_evaluations, query_results, exc>>

NextParse == CallParseEvaluations

SpecParse == InitParse /\ [][NextParse]_vars

\* the validation of section "Response Parser", step 2, on one element
WellFormed(e) ==
    /\ e.t = "dict"
    /\ e.is_valid.t = "bool"
    /\ e.reason.t = "str" /\ e.reason.v # ""
    /\ e.is_valid.v => (e.source.t = "str" /\ e.source.v # "")

\* the payload carried a non-empty 'evaluations' list
HasEvaluations(r) ==
    /\ r.t = "dict"
    /\ r.evaluations.t = "list"
    /\ r.evaluations.v # <<>>

\* C2: every verdict _parse_evaluations returns has a non-empty string source
\* when it is valid and a null source when it is invalid, whatever source the
\* payload element carried.
C2_SourceInvariant ==
    (pc = "parsed" /\ parsed.exc = "none") =>
        \A i \in DOMAIN parsed.outputs :
            LET v == parsed.outputs[i] IN
            /\ v.is_valid => (v.source.t = "str" /\ v.source.v # "")
            /\ ~v.is_valid => v.source = None

\* a parse that returned a valid verdict, and an invalid one whose payload
\* element carried a source string
C2_Witness ==
    /\ pc = "parsed" /\ parsed.exc = "none"
    /\ Len(parsed.outputs) = 2
    /\ parsed.outputs[1].is_valid
    /\ response.evaluations.v[2].t = "dict"
    /\ response.evaluations.v[2].is_valid = JBool(FALSE)
    /\ response.evaluations.v[2].source = JStr("Reuters")
    /\ WellFormed(response.evaluations.v[2])
    /\ ~parsed.outputs[2].is_valid

\* C3: on a non-empty 'evaluations' list _parse_evaluations does not raise and
\* returns one verdict per element: an invalid verdict with null source in
\* the place of each malformed element, and for each well-formed element the
\* verdict its own fields give.
C3_PartialFailure ==
    (pc = "parsed" /\ HasEvaluations(response)) =>
        /\ parsed.exc = "none"
        /\ Len(parsed.outputs) = Len(response.evaluations.v)
        /\ \A i \in DOMAIN response.evaluations.v :
              LET e == response.evaluations.v[i]
                  v == parsed.outputs[i]
              IN IF WellFormed(e)
                 THEN /\ v.is_valid = e.is_valid.v
                      /\ v.reason = e.reason.v
                      /\ v.source = (IF e.is_valid.v THEN e.source ELSE None)
                 ELSE /\ ~v.is_valid
                      /\ v.source = None

\* a parse of a list holding a malformed element before a well-formed one
C3_Witness ==
    /\ pc = "parsed" /\ HasEvaluations(response)
    /\ Len(response.evaluations.v) = 2
    /\ ~WellFormed(response.evaluations.v[1])
    /\ WellFormed(response.evaluations.v[2])
    /\ parsed.exc = "none"
    /\ parsed.outputs[2].is_valid

\* C5: the synthetic verdict of an element that fails validation has a reason
\* starting with "evaluation_error: ".
C5_EvaluationErrorPrefix ==
    (pc = "parsed" /\ HasEvaluations(response) /\ parsed.exc = "none") =>
        \A i \in DOMAIN response.evaluations.v :
            ~WellFormed(response.evaluations.v[i]) =>
                StartsWith(parsed.outputs[i].reason, "evaluation_error: ")

(***************************************************************************)
(* BatchContentJudge._create_batch_evaluation_prompt                       *)
(***************************************************************************)
\* line 119: the slice bound and the length compared against
TruncateAt == 1000

Min(a, b) == IF a < b THEN a ELSE b

\* s[:n]
Prefix(s, n) == SubSeq(s, 1, Min(n, Len(s)))

\* lines 43-111: the fixed system instruction (its opening sentence)
SystemPrompt == "You are a content evaluation system. Your task is to evaluate web content and output a JSON object containing evaluations for each item."

\* line 119, faulty variant: the marker test is >= and the slice keeps one more character
ContentFragmentOffByOne(raw_content) ==
    Prefix(raw_content, TruncateAt + 1) \o (IF Len(raw_content) >= TruncateAt THEN "..." ELSE "")

\* line 119: {item.raw_content[:1000]}{"..." if len(item.raw_content) > 1000 else ""}
ContentFragment(raw_content) ==
    Prefix(raw_content, TruncateAt) \o (IF Len(raw_content) > TruncateAt THEN "..." ELSE "")

\* lines 116-118: the text of an item_prompt before the content
ItemHeader(i, item) ==
    "Content Item " \o ToString(i) \o ":\nURL: " \o item.url \o "\nTitle: " \o item.title \o "\nContent: "

\* lines 115-120: the item_prompt list, enumerate(items, 1)
ItemPrompts(items) ==
    [i \in DOMAIN items |-> ItemHeader(i, items[i]) \o ContentFragment(items[i].raw_content)]

\* chr(10).join(parts)
RECURSIVE JoinLines(_)
JoinLines(parts) ==
    IF parts = <<>> THEN ""
    ELSE IF Len(parts) = 1 THEN Head(parts)
    ELSE Head(parts) \o "\n" \o JoinLines(Tail(parts))

\* lines 122-125
UserPrompt(items) ==
    "Evaluate these " \o ToString(Len(items))
    \o " content items and provide a JSON object with your evaluations.\n"
    \o "Each evaluation should indicate if the content is valid for research use and include a source citation for valid articles.\n\n"
    \o JoinLines(ItemPrompts(items))

\* lines 40-133
CreateBatchEvaluationPrompt(items) ==
    [content_items |-> ItemPrompts(items),
     messages |-> <<[role |-> "system", content |-> SystemPrompt],
                    [role |-> "user", content |-> UserPrompt(items)]>>,
     response_format |-> "json_object"]

(***************************************************************************)
(* SpecPrompt: _create_batch_evaluation_prompt applied to one batch.       *)
(***************************************************************************)
\* n copies of the one-character string c
RECURSIVE Rep(_, _)
Rep(c, n) ==
    IF n = 0 THEN ""
    ELSE LET h == Rep(c, n \div 2) IN h \o h \o (IF n % 2 = 1 THEN c ELSE "")

\* a text of n characters: c up to index 1000, "#" from there on
MarkedText(c, n) == Rep(c, Min(n, 1000)) \o Rep("#", n - Min(n, 1000))

PromptTexts == {MarkedText(c, n) : c \in {"a", "b"}, n \in {0, 1, 500, 999, 1000, 1001, 1002, 1500}}

ContentForJudging(id, query, raw_content, url, title, metadata) ==
    [id |-> id, query |-> query, raw_content |-> raw_content, url |-> url, title |-> title,
     metadata |-> metadata]

PromptItems ==
    {ContentForJudging("q-0", "q", txt, "https://example.com/a", "Title", <<>>) : txt \in PromptTexts}

InitPrompt ==
    /\ pc = "prompt"
    /\ content_items \in SeqsUpTo(PromptItems, MaxPromptItems)
    /\ prompt = <<>>
    /\ response = None
    /\ parsed = NotCalled
    /\ reply = NoReply
    /\ results = <<>>
    /\ batch_size = 1
    /\ requests = 0
    /\ all_results = <<>>
    /\ all_evaluations = NotReturned
    /\ query_results = None
    /\ exc = "none"

CallCreatePrompt ==
    /\ pc = "prompt"
    /\ prompt' = CreateBatchEvaluationPrompt(content_items)
    /\ pc' = "prompted"
    /\ UNCHANGED <<results, batch_size, content_items, requests, reply, response, parsed,
                   all_results, all_evaluations, query_results, exc>>

NextPrompt == CallCreatePrompt

SpecPrompt == InitPrompt /\ [][NextPrompt]_vars

\* the character "#" does not occur in s
NoMark(s) == \A k \in 1..Len(s) : SubSeq(s, k, k) # "#"

\* C9: each item's content fragment is the first 1000 characters of its
\* raw_content followed by "..." when raw_content is longer than 1000, and
\* raw_content itself otherwise; nothing of raw_content from index 1000 on
\* (marked "#") is in the prompt.
C9_Truncation ==
    pc = "prompted" =>
        /\ Len(prompt.content_items) = Len(content_items)
        /\ \A i \in DOMAIN content_items :
              LET raw == content_items[i].raw_content
                  p == prompt.content_items[i]
                  head == ItemHeader(i, content_items[i])
                  frag == SubSeq(p, Len(head) + 1, Len(p))
              IN /\ StartsWith(p, head)
                 /\ IF Len(raw) > 1000
                    THEN /\ Len(frag) = 1003
                         /\ SubSeq(frag, 1, 1000) = SubSeq(raw, 1, 1000)
                         /\ SubSeq(frag, 1001, 1003) = "..."
                    ELSE frag = raw
        /\ NoMark(prompt.messages[2].content)

\* a prompt built from an item of exactly 1000 characters and one of 1500
C9_Witness ==
    /\ pc = "prompted"
    /\ Len(content_items) = 2
    /\ Len(content_items[1].raw_content) = 1000
    /\ Len(content_items[2].raw_content) = 1500
    /\ Len(prompt.content_items[2]) = Len(ItemHeader(2, content_items[2])) + 1003

(***************************************************************************)
(* BatchContentJudge._get_llm_evaluation                                   *)
(***************************************************************************)
\* a reply body that json.loads rejects
NotJson == [t |-> "notjson"]

\* lines 135-154: the decoded body, or LLMEvaluationError for a failed call
\* and for a body that is not JSON (the inner raise is wrapped by the outer
\* except)
GetLLMEvaluation(service_reply) ==
    IF service_reply.status # "ok"
    THEN Raise("LLMEvaluationError", "LLM evaluation failed: connection error")
    ELSE IF service_reply.body.t = "notjson"
    THEN Raise("LLMEvaluationError", "LLM evaluation failed: Invalid JSON in LLM response: Expecting value")
    ELSE [exc |-> "none", value |-> service_reply.body]

(***************************************************************************)
(* model_binary_judge.py: TavilyResult, ContentForJudging, ValidResult,    *)
(* QueryResults                                                            *)
(***************************************************************************)
TavilyResult(url, title, content, raw_content, published_date) ==
    [url |-> url, title |-> title, content |-> content, raw_content |-> raw_content,
     published_date |-> published_date]

\* metadata: Dict[str, str] -- pydantic accepts string values only
MetadataValid(metadata) == \A k \in DOMAIN metadata : metadata[k].t = "str"

\* a or b
Or(a, b) == IF Truthy(a) THEN a ELSE b

\* lines 238-248: the ContentForJudging built from result i, or the pydantic
\* ValidationError of its constructor
WrapResult(query, i, result) ==
    LET metadata == [focused_content |-> JStr(result.content),
                     published_date |-> result.published_date]
    IN IF MetadataValid(metadata)
       THEN [exc |-> "none",
             item |-> ContentForJudging(query \o "-" \o ToString(i), query,
                                        Or(result.raw_content, JStr(result.content)).v,
                                        result.url, result.title, metadata)]
       ELSE Raise("ValidationError", "validation error for ContentForJudging: metadata.published_date")

\* ValidResult(...): source is a required str
ValidResult(item, eval_output) ==
    IF eval_output.source.t = "str"
    THEN [exc |-> "none",
          value |-> [url |-> item.url,
                     title |-> item.title,
                     source |-> eval_output.source.v,
                     focused_content |-> item.metadata["focused_content"].v,
                     raw_content |-> item.raw_content,
                     published_date |-> item.metadata["published_date"],
                     query |-> item.query,
                     evaluation_reason |-> eval_output.reason]]
    ELSE Raise("ValidationError", "validation error for ValidResult: source")

\* lines 256-259, faulty variant: total_evaluated counts the verdicts
QueryResultsOfVerdicts(query, given, evaluations) ==
    [t |-> "QueryResults", query |-> query, valid_results |-> <<>>,
     total_evaluated |-> Len(evaluations), total_passed |-> 0, failure_reasons |-> <<>>]

\* lines 256-259: QueryResults(query=query, total_evaluated=len(results))
QueryResults(query, given, evaluations) ==
    [t |-> "QueryResults", query |-> query, valid_results |-> <<>>,
     total_evaluated |-> Len(given), total_passed |-> 0, failure_reasons |-> <<>>]

(***************************************************************************)
(* BatchContentJudge._process_batches and evaluate_tavily_results          *)
(***************************************************************************)
\* lines 290-293: items[i:i + batch_size] for i in range(0, len(items), batch_size)
NumBatches(items, size) == (Len(items) + size - 1) \div size

Batch(items, size, k) == SubSeq(items, (k - 1) * size + 1, Min(k * size, Len(items)))

\* lines 279-280, faulty variant: the count is set to 1 instead of incremented
TallyReset(failure_reasons, reason) ==
    IF reason \in DOMAIN failure_reasons
    THEN [failure_reasons EXCEPT ![reason] = 1]
    ELSE failure_reasons @@ (reason :> 1)

\* lines 279-280: failure_reasons[reason] = failure_reasons.get(reason, 0) + 1
Tally(failure_reasons, reason) ==
    IF reason \in DOMAIN failure_reasons
    THEN [failure_reasons EXCEPT ![reason] = @ + 1]
    ELSE failure_reasons @@ (reason :> 1)

\* lines 262-280: the fold over zip(content_items, all_evaluations)
RECURSIVE Fold(_, _, _, _)
Fold(items, evaluations, i, bundle) ==
    IF i > Min(Len(items), Len(evaluations)) THEN [exc |-> "none", value |-> bundle]
    ELSE LET item == items[i]
             eval_output == evaluations[i]
         IN IF eval_output.is_valid
            THEN LET valid_result == ValidResult(item, eval_output) IN
                 IF valid_result.exc # "none" THEN valid_result
                 ELSE Fold(items, evaluations, i + 1,
                           [bundle EXCEPT !.valid_results = Append(@, valid_result.value),
                                          !.total_passed = @ + 1])
            ELSE Fold(items, evaluations, i + 1,
                      [bundle EXCEPT !.failure_reasons = Tally(@, eval_output.reason)])

(***************************************************************************)
(* Spec: one call of evaluate_tavily_results.                              *)
(***************************************************************************)
Query == "q"

\* result i of the list given: complete, without raw_content, or without
\* published_date
ResultOfKind(i, kind) ==
    TavilyResult("https://example.com/" \o ToString(i), "Title " \o ToString(i),
                 "focused " \o ToString(i),
                 IF kind = "no_raw" THEN None ELSE JStr("raw " \o ToString(i)),
                 IF kind = "no_date" THEN None ELSE JStr("2024-01-15"))

\* the result lists given: every result complete, or the last one incomplete
ResultLists ==
    {[i \in 1..n |-> ResultOfKind(i, IF i = n THEN kind ELSE "full")] :
        n \in 0..MaxItems, kind \in {"full", "no_raw", "no_date"}}

\* the elements the service answers with: a valid verdict, two invalid ones
\* (one carrying a source), and a valid one that lacks its source
ServiceElements ==
    {EvalDict(JBool(TRUE), JStr("Reuters"), JStr("ok")),
     EvalDict(JBool(FALSE), JStr("Reuters"), JStr("too short")),
     EvalDict(JBool(FALSE), Missing, JStr("paywall")),
     EvalDict(JBool(TRUE), Missing, JStr("ok"))}

\* what the service may answer to a request for n items: a failed call, a
\* body that is not JSON, JSON of the wrong shape, or an 'evaluations' list
\* of n - 1, n or n + 1 elements
Replies(n) ==
    {[status |-> "transport_failure"]}
    \cup {[status |-> "ok", body |-> b] :
            b \in {NotJson, JList(<<>>), Payload(Missing, Missing), Payload(JList(<<>>), JNum(0)),
                   Payload(JStr("none"), JNum(0))}}
    \cup {[status |-> "ok", body |-> Payload(JList(l), JNum(Len(l)))] :
            l \in {q \in SeqsUpTo(ServiceElements, n + 1) : Len(q) >= n - 1 /\ Len(q) >= 1}}

Init ==
    /\ pc = "start"
    /\ results \in ResultLists
    /\ batch_size \in 1..MaxBatchSize
    /\ content_items = <<>>
    /\ requests = 0
    /\ prompt = <<>>
    /\ reply = NoReply
    /\ response = None
    /\ parsed = NotCalled
    /\ all_results = <<>>
    /\ all_evaluations = NotReturned
    /\ query_results = None
    /\ exc = "none"

\* lines 236-250: the list comprehension; the first constructor that raises
\* ends the call
WrapResults ==
    /\ pc = "start"
    /\ LET wrapped == [i \in DOMAIN results |-> WrapResult(Query, i - 1, results[i])] IN
       IF \A i \in DOMAIN wrapped : wrapped[i].exc = "none"
       THEN /\ content_items' = [i \in DOMAIN wrapped |-> wrapped[i].item]
            /\ pc' = "batches"
            /\ exc' = "none"
       ELSE /\ content_items' = <<>>
            /\ pc' = "raised"
            /\ exc' = "ValidationError"
    /\ UNCHANGED <<results, batch_size, requests, prompt, reply, response, parsed,
                   all_results, all_evaluations, query_results>>

\* lines 296-300: one iteration of the loop over batches
ProcessBatch ==
    /\ pc = "batches"
    /\ requests < NumBatches(content_items, batch_size)
    /\ LET batch == Batch(content_items, batch_size, requests + 1) IN
       \E service_reply \in Replies(Len(batch)) :
          LET got == GetLLMEvaluation(service_reply)
              batch_results == ParseEvaluations(got.value)
          IN /\ prompt' = CreateBatchEvaluationPrompt(batch)
             /\ requests' = requests + 1
             /\ reply' = service_reply
             /\ IF got.exc # "none"
                THEN /\ pc' = "raised"
                     /\ exc' = got.exc
                     /\ UNCHANGED <<response, parsed, all_results>>
                ELSE /\ response' = got.value
                     /\ parsed' = batch_results
                     /\ IF batch_results.exc # "none"
                        THEN /\ pc' = "raised"
                             /\ exc' = batch_results.exc
                             /\ UNCHANGED all_results
                        ELSE /\ pc' = "batches"
                             /\ exc' = "none"
                             /\ all_results' = all_results \o batch_results.outputs
    /\ UNCHANGED <<results, batch_size, content_items, all_evaluations, query_results>>

\* lines 302 and 253-282: _process_batches returns and the verdicts are
\* folded into the bundle
Aggregate ==
    /\ pc = "batches"
    /\ requests = NumBatches(content_items, batch_size)
    /\ all_evaluations' = [returned |-> TRUE, value |-> all_results]
    /\ LET folded == Fold(content_items, all_results, 1,
                          QueryResults(Query, results, all_results))
       IN IF folded.exc = "none"
          THEN /\ query_results' = folded.value
               /\ pc' = "done"
               /\ exc' = "none"
          ELSE /\ query_results' = None
               /\ pc' = "raised"
               /\ exc' = folded.exc
    /\ UNCHANGED <<results, batch_size, content_items, requests, prompt, reply, response,
                   parsed, all_results>>

Next == WrapResults \/ ProcessBatch \/ Aggregate

Spec == Init /\ [][Next]_vars

\* the (item, verdict) pairs the fold sees
Folded == 1..Min(Len(content_items), Len(all_evaluations.value))

\* the folded pairs whose verdict is invalid with reason r
InvalidWith(r) ==
    {i \in Folded : ~all_evaluations.value[i].is_valid /\ all_evaluations.value[i].reason = r}

\* the folded pairs up to i whose verdict is valid
ValidUpTo(i) == {k \in Folded : k <= i /\ all_evaluations.value[k].is_valid}

RECURSIVE SumCounts(_)
SumCounts(f) ==
    IF DOMAIN f = {} THEN 0
    ELSE LET k == CHOOSE x \in DOMAIN f : TRUE IN
         f[k] + SumCounts([x \in DOMAIN f \ {k} |-> f[x]])

\* the reply makes the request or the top-level parse of its chunk fail
ChunkFails(r) ==
    \/ r.status = "transport_failure"
    \/ /\ r.status = "ok"
       /\ \/ r.body.t # "dict"
          \/ r.body.evaluations.t # "list"
          \/ r.body.evaluations.v = <<>>

\* C1: when every chunk succeeds _process_batches returns exactly len(items)
\* verdicts, whatever number of elements the service put in its replies.
C1_OneVerdictPerItem ==
    all_evaluations.returned => Len(all_evaluations.value) = Len(content_items)

\* C4: once the request or the top-level parse of a chunk has failed, the call
\* has ended with LLMEvaluationError, no further request can be issued,
\* _process_batches has returned nothing and there is no bundle.
C4_HardFailure ==
    (reply.status # "none" /\ ChunkFails(reply)) =>
        /\ pc = "raised"
        /\ exc = "LLMEvaluationError"
        /\ ~ENABLED ProcessBatch
        /\ all_evaluations = NotReturned
        /\ query_results = None

\* the second of three chunks failed after the first had produced verdicts
C4_Witness ==
    /\ pc = "raised"
    /\ ChunkFails(reply)
    /\ requests = 2
    /\ NumBatches(content_items, batch_size) = 3
    /\ Len(all_results) >= 1

\* C6: a returned bundle whose verdicts are all valid has
\* total_passed = len(valid_results) = total_evaluated and no failure reasons.
C6_AllValid ==
    (pc = "done" /\ \A i \in DOMAIN all_evaluations.value : all_evaluations.value[i].is_valid) =>
        /\ query_results.total_passed = Len(query_results.valid_results)
        /\ query_results.total_passed = query_results.total_evaluated
        /\ DOMAIN query_results.failure_reasons = {}

\* C7: in a returned bundle failure_reasons[r] is the number of folded pairs
\* whose verdict is invalid with reason r, a reason without such a pair is no
\* key, and valid_results holds, in input order, one accepted result per
\* folded pair whose verdict is valid.
C7_Tally ==
    pc = "done" =>
        LET fr == query_results.failure_reasons
            vr == query_results.valid_results
            ev == all_evaluations.value
        IN /\ \A r \in DOMAIN fr \cup {ev[i].reason : i \in Folded} :
                 /\ r \in DOMAIN fr <=> InvalidWith(r) # {}
                 /\ r \in DOMAIN fr => fr[r] = Cardinality(InvalidWith(r))
           /\ Len(vr) = Cardinality({i \in Folded : ev[i].is_valid})
           /\ \A i \in Folded :
                 ev[i].is_valid =>
                    LET a == vr[Cardinality(ValidUpTo(i))] IN
                    /\ a.url = content_items[i].url
                    /\ a.title = content_items[i].title
                    /\ a.raw_content = content_items[i].raw_content
                    /\ a.query = content_items[i].query
                    /\ a.source = ev[i].source.v
                    /\ a.evaluation_reason = ev[i].reason

\* a bundle of three pairs: "too short" twice and one valid verdict
C7_Witness ==
    /\ pc = "done"
    /\ Len(content_items) = 3
    /\ Len(query_results.valid_results) = 1
    /\ "too short" \in DOMAIN query_results.failure_reasons
    /\ query_results.failure_reasons["too short"] = 2

\* C8: a result without published_date does not make the call fail while the
\* results are wrapped.
C8_OptionalDate ==
    (\E i \in DOMAIN results : results[i].published_date = None) =>
        ~(pc = "raised" /\ exc = "ValidationError")

\* C10: in a returned bundle total_evaluated is the number of results given,
\* total_passed is len(valid_results), and total_passed plus the failure
\* counts is the smaller of the numbers of items and of verdicts: never more
\* than total_evaluated, and less exactly when fewer verdicts than items
\* were returned.
C10_Totals ==
    pc = "done" =>
        LET accounted == query_results.total_passed + SumCounts(query_results.failure_reasons) IN
        /\ query_results.total_evaluated = Len(results)
        /\ query_results.total_passed = Len(query_results.valid_results)
        /\ accounted = Min(Len(content_items), Len(all_evaluations.value))
        /\ accounted <= query_results.total_evaluated
        /\ accounted < query_results.total_evaluated
              <=> Len(all_evaluations.value) < Len(content_items)

\* a bundle for which the service returned one verdict less than asked for
C10_Witness ==
    /\ pc = "done"
    /\ Len(all_evaluations.value) < Len(content_items)
    /\ query_results.total_passed >= 1
    /\ DOMAIN query_results.failure_reasons # {}

====
